---- MODULE Spec2Model ----
(***************************************************************************)
(* A model of the conntrack crate: the Conntrack session (connect, dump,   *)
(* delete) of src/conntrack/src/connection.rs and the attribute encoder of *)
(* src/conntrack/src/encoders.rs.                                          *)
(*                                                                         *)
(* A byte is a number in 0..255, a Buffer a sequence of bytes.  An Nlattr  *)
(* is the record [nla_len, nla_type, nla_payload] of the netlink library,  *)
(* its nla_type the record [nla_nested, nla_network_order, nla_type].      *)
(* Integers are written in the byte order of the host (to_ne_bytes), which *)
(* the variable endian holds: "LE" or "BE", fixed by the build.            *)
(***************************************************************************)
EXTENDS Integers, Sequences, FiniteSets, TLC

(* ------------------------------ bounds -------------------------------- *)

\* responses the kernel sends to one request
MaxResponses == 3
\* bytes of a scalar payload built in the codec specification
MaxPayload == 5
\* attributes nested under one parent in the codec specification
MaxSiblings == 2

(* --------------------------- program constants ------------------------ *)

\* libc::AF_INET, the command code of a delete request
AF_INET == 2
\* libc::NFNETLINK_V0, the version of every request
NFNETLINK_V0 == 0
\* the command code of a dump request
DUMP_CMD == 0

HostOrders == {"LE", "BE"}

(* ------------------------------ integers ------------------------------ *)

\* u16::to_ne_bytes
u16_ne_bytes(v, e) ==
    IF e = "LE" THEN <<v % 256, (v \div 256) % 256>>
                ELSE <<(v \div 256) % 256, v % 256>>

\* u32::to_ne_bytes
u32_ne_bytes(v, e) ==
    LET b0 == v % 256
        b1 == (v \div 256) % 256
        b2 == (v \div 65536) % 256
        b3 == (v \div 16777216) % 256
    IN  IF e = "LE" THEN <<b0, b1, b2, b3>> ELSE <<b3, b2, b1, b0>>

\* u16::from_ne_bytes
u16_from_ne_bytes(b, e) ==
    IF e = "LE" THEN b[1] + 256 * b[2] ELSE 256 * b[1] + b[2]

Zeros(n) == [i \in 1..n |-> 0]

\* neli's alignto: the next multiple of 4
alignto(n) == ((n + 3) \div 4) * 4

(* ----------------------------- attributes ----------------------------- *)

\* The attribute enums of crate::attributes (the kernel's nfnetlink_conntrack
\* numbering), as the u16 each variant converts to.
TypeCode(t) ==
    CASE t = "CtaTupleOrig"  -> 1
      [] t = "CtaTupleReply" -> 2
      [] t = "CtaTupleIp"    -> 1
      [] t = "CtaTupleProto" -> 2
      [] t = "CtaIpv4Src"    -> 1
      [] t = "CtaIpv4Dst"    -> 2
      [] t = "CtaIpv6Src"    -> 3
      [] t = "CtaIpv6Dst"    -> 4
      [] t = "CtaProtoNum"   -> 1

\* Size::unpadded_size of an Nlattr: the header and the payload, no padding
unpadded_size(attr) == 4 + Len(attr.nla_payload)

\* The 16-bit type field: bit 15 nested, bit 14 network order, bits 0-13 the code
type_field(ty) ==
    (IF ty.nla_nested THEN 32768 ELSE 0)
    + (IF ty.nla_network_order THEN 16384 ELSE 0)
    + (TypeCode(ty.nla_type) % 16384)

\* ToBytes of an Nlattr: nla_len, the type field, the payload, then zero bytes
\* up to the next multiple of 4
to_bytes(attr, e) ==
    u16_ne_bytes(attr.nla_len, e)
    \o u16_ne_bytes(type_field(attr.nla_type), e)
    \o attr.nla_payload
    \o Zeros(alignto(unpadded_size(attr)) - unpadded_size(attr))

\* make_attr: payload is the bytes the payload argument serialises to (a Buffer:
\* its bytes; an Nlattr: its to_bytes); nla_len is the unpadded size as a u16
make_attr(attr_type, nest, payload) ==
    [nla_len |-> (4 + Len(payload)) % 65536,
     nla_type |-> [nla_nested |-> nest, nla_network_order |-> FALSE,
                   nla_type |-> attr_type],
     nla_payload |-> payload]

\* nest leaving nla_len as it was
nest_stale_len(attr, child, e) ==
    [attr EXCEPT !.nla_payload = attr.nla_payload \o to_bytes(child, e)]

\* Nlattr::nest: the child's bytes are appended to the payload and nla_len
\* is set again
nest(attr, child, e) ==
    LET payload == attr.nla_payload \o to_bytes(child, e)
    IN  [attr EXCEPT !.nla_payload = payload,
                     !.nla_len = (4 + Len(payload)) % 65536]

\* A write of bytes at position 0 of a cursor over the vector init: the bytes
\* replace the vector's first ones and extend it when they are more
CursorWrite(init, bytes) ==
    IF Len(bytes) >= Len(init) THEN bytes
    ELSE bytes \o SubSeq(init, Len(bytes) + 1, Len(init))

\* into_buffer keeping only the unpadded size of the attribute
into_buffer_truncated(attr, e) ==
    SubSeq(to_bytes(attr, e), 1, unpadded_size(attr))

\* IntoBuffer for Nlattr
into_buffer(attr, e) ==
    CursorWrite(Zeros(unpadded_size(attr)), to_bytes(attr, e))

(* ------------------------------- delete ------------------------------- *)

\* An IpAddr: an Ipv4Addr of four octets (a.b.c.d) or an Ipv6Addr of eight
\* 16-bit segments (s1:s2:...:s8)
V4(a, b, c, d) == [family |-> "V4", parts |-> <<a, b, c, d>>]
V6(s) == [family |-> "V6", parts |-> s]

\* Ipv4Addr::octets / Ipv6Addr::octets: the address in network order
octets(ip) ==
    IF ip.family = "V4" THEN ip.parts
    ELSE [i \in 1..16 |->
            IF i % 2 = 1 THEN ip.parts[(i + 1) \div 2] \div 256
                         ELSE ip.parts[i \div 2] % 256]

\* the match of delete with the address attribute taken from the flag alone
delete_select_ignores_family(ip, src) ==
    IF src
    THEN [top_attr_type |-> "CtaTupleOrig", attr_type |-> "CtaIpv4Src",
          bin |-> octets(ip)]
    ELSE [top_attr_type |-> "CtaTupleReply", attr_type |-> "CtaIpv4Dst",
          bin |-> octets(ip)]

\* delete: let (top_attr_type, attr_type, bin) = match ip { ... }
delete_select(ip, src) ==
    IF ip.family = "V4"
    THEN IF src
         THEN [top_attr_type |-> "CtaTupleOrig", attr_type |-> "CtaIpv4Src",
               bin |-> octets(ip)]
         ELSE [top_attr_type |-> "CtaTupleReply", attr_type |-> "CtaIpv4Dst",
               bin |-> octets(ip)]
    ELSE IF src
         THEN [top_attr_type |-> "CtaTupleOrig", attr_type |-> "CtaIpv6Src",
               bin |-> octets(ip)]
         ELSE [top_attr_type |-> "CtaTupleReply", attr_type |-> "CtaIpv6Dst",
               bin |-> octets(ip)]

\* the attributes of delete with the protocol tuple nested first
delete_attrs_proto_first(proto, ip, src, e) ==
    LET sel == delete_select(ip, src)
        ip_attr == make_attr(sel.attr_type, FALSE, sel.bin)
        ip_tuple == make_attr("CtaTupleIp", TRUE, to_bytes(ip_attr, e))
        proto_attr == make_attr("CtaProtoNum", FALSE, u32_ne_bytes(proto, e))
        proto_tuple == make_attr("CtaTupleProto", TRUE, to_bytes(proto_attr, e))
        top == make_attr(sel.top_attr_type, TRUE, to_bytes(proto_tuple, e))
    IN  [ip_attr |-> ip_attr, ip_tuple |-> ip_tuple,
         proto_attr |-> proto_attr, proto_tuple |-> proto_tuple,
         attr |-> nest(top, ip_tuple, e)]

\* the attributes of delete with the protocol number written big-endian
delete_attrs_proto_big_endian(proto, ip, src, e) ==
    LET sel == delete_select(ip, src)
        ip_attr == make_attr(sel.attr_type, FALSE, sel.bin)
        ip_tuple == make_attr("CtaTupleIp", TRUE, to_bytes(ip_attr, e))
        proto_attr == make_attr("CtaProtoNum", FALSE, u32_ne_bytes(proto, "BE"))
        proto_tuple == make_attr("CtaTupleProto", TRUE, to_bytes(proto_attr, e))
        top == make_attr(sel.top_attr_type, TRUE, to_bytes(ip_tuple, e))
    IN  [ip_attr |-> ip_attr, ip_tuple |-> ip_tuple,
         proto_attr |-> proto_attr, proto_tuple |-> proto_tuple,
         attr |-> nest(top, proto_tuple, e)]

\* delete: the attribute it builds, with the attributes it is built from
delete_attrs(proto, ip, src, e) ==
    LET sel == delete_select(ip, src)
        ip_attr == make_attr(sel.attr_type, FALSE, sel.bin)
        ip_tuple == make_attr("CtaTupleIp", TRUE, to_bytes(ip_attr, e))
        proto_attr == make_attr("CtaProtoNum", FALSE, u32_ne_bytes(proto, e))
        proto_tuple == make_attr("CtaTupleProto", TRUE, to_bytes(proto_attr, e))
        top == make_attr(sel.top_attr_type, TRUE, to_bytes(ip_tuple, e))
    IN  [ip_attr |-> ip_attr, ip_tuple |-> ip_tuple,
         proto_attr |-> proto_attr, proto_tuple |-> proto_tuple,
         attr |-> nest(top, proto_tuple, e)]

\* the delete request with the command code following the address family
delete_request_cmd_by_family(proto, ip, src, e) ==
    [kind |-> "CtDelete", flags |-> {"ACK", "MATCH"},
     cmd |-> IF ip.family = "V4" THEN AF_INET ELSE 10,
     version |-> NFNETLINK_V0,
     attrs |-> <<delete_attrs(proto, ip, src, e).attr>>]

\* delete: the message handed to socket.send
delete_request(proto, ip, src, e) ==
    [kind |-> "CtDelete", flags |-> {"ACK", "MATCH"},
     cmd |-> AF_INET, version |-> NFNETLINK_V0,
     attrs |-> <<delete_attrs(proto, ip, src, e).attr>>]

\* dump: the message handed to socket.send
dump_request ==
    [kind |-> "Conntrack", flags |-> {"DUMP"},
     cmd |-> DUMP_CMD, version |-> NFNETLINK_V0, attrs |-> <<>>]

(* ------------------------------ session ------------------------------- *)

VARIABLES
    endian,        \* the byte order of the host
    pc,            \* "idle", or the loop a call is in: "dump", "delete"
    op,            \* the call made last: "none", "dump", "delete"
    args,          \* the arguments of the call made last
    request,       \* the message the call made last handed to socket.send
    sends,         \* how often the call made last called socket.send
    responses,     \* what the receive iterator of the last request yields
    pos,           \* how many of them the call has taken from the iterator
    flows,         \* dump's vector of flows
    ret,           \* what the call made last returned
    unreadAtSend,  \* responses of the request before not taken when the last
                   \* request was sent
    kid,           \* codec: the attribute built last
    cur,           \* codec: the nested attribute under construction
    kids,          \* codec: the attributes put into cur, in order
    buf            \* codec: the buffer into_buffer made last

vars == <<endian, pc, op, args, request, sends, responses, pos, flows, ret,
          unreadAtSend, kid, cur, kids, buf>>
sessionVars == <<pc, op, args, request, sends, responses, pos, flows, ret,
                 unreadAtSend>>
codecVars == <<kid, cur, kids, buf>>

SeqsUpTo(S, n) == UNION {[1..k -> S] : k \in 0..n}

\* The arguments delete is called with
Protos == {0, 6, 17, 255}
Addrs == {V4(10, 0, 0, 1), V4(192, 168, 1, 20),
          V6(<<0, 0, 0, 0, 0, 0, 0, 1>>),
          V6(<<8193, 3512, 0, 0, 0, 0, 258, 65535>>)}
NoArgs == [proto |-> 0, ip |-> V4(0, 0, 0, 0), src |-> FALSE]
NoRequest == [kind |-> "none", flags |-> {}, cmd |-> 0, version |-> 0,
              attrs |-> <<>>]

\* What the receive iterator yields: an error (Err(e) of the iterator), a
\* message without a payload (the end-of-dump marker, an acknowledgement), or
\* a message with a payload; orig and reply are the tuples its attributes
\* hold, 0 for an attribute that is missing
Item(kind, orig, reply, err) ==
    [kind |-> kind, orig |-> orig, reply |-> reply, err |-> err]
DumpItems ==
    {Item("Err", 0, 0, "transport"), Item("Empty", 0, 0, ""),
     Item("Payload", 1, 1, ""), Item("Payload", 2, 2, ""),
     Item("Payload", 1, 0, ""), Item("Payload", 0, 2, "")}
DeleteItems ==
    {Item("Err", 0, 0, "transport"), Item("Err", 0, 0, "kernel"),
     Item("Empty", 0, 0, "")}

NoRet == [tag |-> "None", flows |-> <<>>, err |-> ""]
Ok(v) == [tag |-> "Ok", flows |-> v, err |-> ""]
Err(e) == [tag |-> "Err", flows |-> <<>>, err |-> e]

\* Flow::decode of a message's attributes: a Flow holds both tuples, and
\* a message without one of them is a MissingTupleError
Flow_decode(item) ==
    IF item.orig = 0 \/ item.reply = 0
    THEN [ok |-> FALSE, err |-> "MissingTupleError", flow |-> <<0, 0>>]
    ELSE [ok |-> TRUE, err |-> "", flow |-> <<item.orig, item.reply>>]

NoAttr == make_attr("CtaTupleOrig", FALSE, <<>>)

SessionInit ==
    /\ pc = "idle" /\ op = "none" /\ args = NoArgs /\ request = NoRequest
    /\ sends = 0 /\ responses = <<>> /\ pos = 0 /\ flows = <<>>
    /\ ret = NoRet /\ unreadAtSend = 0

CodecIdle ==
    /\ kid = [set |-> FALSE, depth |-> 0, attr |-> NoAttr]
    /\ cur = [set |-> FALSE, depth |-> 0, attr |-> NoAttr]
    /\ kids = <<>> /\ buf = <<>>

Init == endian \in HostOrders /\ SessionInit /\ CodecIdle

\* The call builds its message and hands it to socket.send
Call(name, a, req) ==
    /\ pc = "idle"
    /\ op' = name /\ args' = a /\ request' = req
    /\ sends' = 1
    /\ unreadAtSend' = Len(responses) - pos
    /\ responses' = <<>> /\ pos' = 0 /\ flows' = <<>> /\ ret' = NoRet
    /\ pc' = "send"
    /\ UNCHANGED <<endian, codecVars>>

\* dump, up to socket.send
CallDump == Call("dump", NoArgs, dump_request)

\* delete, up to socket.send
CallDelete ==
    \E proto \in Protos, ip \in Addrs, src \in BOOLEAN :
        Call("delete", [proto |-> proto, ip |-> ip, src |-> src],
             delete_request(proto, ip, src, endian))

\* socket.send(...)? fails: the call returns the error
SendFails ==
    /\ pc = "send"
    /\ ret' = Err("send") /\ pc' = "idle"
    /\ UNCHANGED <<endian, op, args, request, sends, responses, pos, flows,
                   unreadAtSend, codecVars>>

\* socket.send(...)? gives the receive iterator of the request's responses,
\* and the call enters its loop
SendOk ==
    /\ pc = "send"
    /\ responses' \in SeqsUpTo(IF op = "dump" THEN DumpItems ELSE DeleteItems,
                               MaxResponses)
    /\ pc' = op
    /\ UNCHANGED <<endian, op, args, request, sends, pos, flows, ret,
                   unreadAtSend, codecVars>>

\* one turn of dump's loop that stops at a message without a payload
DumpNextStopsAtEmpty ==
    /\ pc = "dump" /\ pos < Len(responses)
    /\ LET result == responses[pos + 1]
           decoded == Flow_decode(result)
       IN  /\ pos' = pos + 1
           /\ IF result.kind = "Err"
              THEN ret' = Err(result.err) /\ pc' = "idle" /\ flows' = flows
              ELSE IF result.kind = "Payload"
              THEN IF decoded.ok
                   THEN /\ flows' = Append(flows, decoded.flow)
                        /\ UNCHANGED <<ret, pc>>
                   ELSE ret' = Err(decoded.err) /\ pc' = "idle" /\ flows' = flows
              ELSE ret' = Ok(flows) /\ pc' = "idle" /\ flows' = flows
    /\ UNCHANGED <<endian, op, args, request, sends, responses,
                   unreadAtSend, codecVars>>

\* dump: one turn of the loop over the receive iterator
DumpNext ==
    /\ pc = "dump" /\ pos < Len(responses)
    /\ LET result == responses[pos + 1]
           decoded == Flow_decode(result)
       IN  /\ pos' = pos + 1
           /\ IF result.kind = "Err"
              THEN ret' = Err(result.err) /\ pc' = "idle" /\ flows' = flows
              ELSE IF result.kind = "Payload"
              THEN IF decoded.ok
                   THEN /\ flows' = Append(flows, decoded.flow)
                        /\ UNCHANGED <<ret, pc>>
                   ELSE ret' = Err(decoded.err) /\ pc' = "idle" /\ flows' = flows
              ELSE UNCHANGED <<ret, pc, flows>>
    /\ UNCHANGED <<endian, op, args, request, sends, responses,
                   unreadAtSend, codecVars>>

\* dump: the iterator has ended, Ok(flows)
DumpReturn ==
    /\ pc = "dump" /\ pos = Len(responses)
    /\ ret' = Ok(flows) /\ pc' = "idle"
    /\ UNCHANGED <<endian, op, args, request, sends, responses, pos, flows,
                   unreadAtSend, codecVars>>

\* delete: one turn of the loop, which logs what the iterator yields
DeleteNext ==
    /\ pc = "delete" /\ pos < Len(responses)
    /\ pos' = pos + 1
    /\ UNCHANGED <<endian, pc, op, args, request, sends, responses, flows, ret,
                   unreadAtSend, codecVars>>

\* delete: the iterator has ended, Ok(())
DeleteReturn ==
    /\ pc = "delete" /\ pos = Len(responses)
    /\ ret' = Ok(<<>>) /\ pc' = "idle"
    /\ UNCHANGED <<endian, op, args, request, sends, responses, pos, flows,
                   unreadAtSend, codecVars>>

Next ==
    \/ CallDump
    \/ CallDelete
    \/ SendFails
    \/ SendOk
    \/ DumpNext
    \/ DumpReturn
    \/ DeleteNext
    \/ DeleteReturn

Spec == Init /\ [][Next]_vars

(* ------------------------------- codec --------------------------------- *)

\* The attribute families by nesting level: the scalar attributes of an IP or
\* protocol tuple, the tuple's own attributes, the top-level attributes
LevelTypes(level) ==
    CASE level = 0 -> {"CtaProtoNum"}
      [] level = 1 -> {"CtaTupleProto"}
      [] level = 2 -> {"CtaTupleOrig"}

\* A scalar payload of n bytes, none of them zero
Fill(n) == [i \in 1..n |-> 160 + i]

Built(attr, depth) == [set |-> TRUE, depth |-> depth, attr |-> attr]
Unset == [set |-> FALSE, depth |-> 0, attr |-> NoAttr]

\* make_attr(attr_type, false, Buffer::from(bytes))
BuildScalar ==
    /\ \E t \in LevelTypes(0), n \in 0..MaxPayload :
          kid' = Built(make_attr(t, FALSE, Fill(n)), 0)
    /\ buf' = <<>>
    /\ UNCHANGED <<endian, sessionVars, cur, kids>>

\* make_attr(attr_type, true, child): the child is the payload, handed over
\* as the Nlattr itself or as the Buffer into_buffer makes of it
BuildNested ==
    /\ kid.set /\ ~cur.set /\ kid.depth < 2
    /\ \E t \in LevelTypes(kid.depth + 1), viaBuffer \in BOOLEAN :
          cur' = Built(make_attr(t, TRUE,
                                 IF viaBuffer THEN into_buffer(kid.attr, endian)
                                              ELSE to_bytes(kid.attr, endian)),
                       kid.depth + 1)
    /\ kids' = <<kid.attr>>
    /\ UNCHANGED <<endian, sessionVars, kid, buf>>

\* attr = attr.nest(&child)?
NestSibling ==
    /\ cur.set /\ kid.set /\ kid.depth < cur.depth /\ Len(kids) < MaxSiblings
    /\ cur' = [cur EXCEPT !.attr = nest(cur.attr, kid.attr, endian)]
    /\ kids' = Append(kids, kid.attr)
    /\ UNCHANGED <<endian, sessionVars, kid, buf>>

\* The nested attribute is complete and may become a child itself
Finish ==
    /\ cur.set
    /\ kid' = cur /\ cur' = Unset /\ kids' = <<>> /\ buf' = <<>>
    /\ UNCHANGED <<endian, sessionVars>>

\* attr.into_buffer()
IntoBuffer ==
    /\ kid.set /\ buf = <<>>
    /\ buf' = into_buffer(kid.attr, endian)
    /\ UNCHANGED <<endian, sessionVars, kid, cur, kids>>

CodecNext ==
    \/ BuildScalar
    \/ BuildNested
    \/ NestSibling
    \/ Finish
    \/ IntoBuffer

CodecSpec == Init /\ [][CodecNext]_vars

(* ------------------------------- decode -------------------------------- *)

\* What Decode reads of one attribute
View(attr) ==
    [type_code |-> TypeCode(attr.nla_type.nla_type),
     is_nested |-> attr.nla_type.nla_nested,
     is_network_order |-> attr.nla_type.nla_network_order,
     payload |-> attr.nla_payload]

\* Decode: read a 4-byte header, take length - 4 payload bytes, skip the
\* padding up to the next multiple of 4, and repeat until the buffer is
\* exhausted; ok is FALSE when a header or a payload extends past the buffer
\* (TruncatedAttributeError), exact is TRUE when the last attribute read ends
\* with the buffer, its padding included
RECURSIVE DecodeFrom(_, _, _, _)
DecodeFrom(bytes, off, acc, e) ==
    IF off >= Len(bytes)
    THEN [ok |-> TRUE, exact |-> off = Len(bytes), attrs |-> acc]
    ELSE IF off + 4 > Len(bytes)
    THEN [ok |-> FALSE, exact |-> FALSE, attrs |-> acc]
    ELSE LET length == u16_from_ne_bytes(SubSeq(bytes, off + 1, off + 2), e)
             field == u16_from_ne_bytes(SubSeq(bytes, off + 3, off + 4), e)
             one == [type_code |-> field % 16384,
                     is_nested |-> (field \div 32768) % 2 = 1,
                     is_network_order |-> (field \div 16384) % 2 = 1,
                     payload |-> SubSeq(bytes, off + 5, off + length)]
         IN  IF length < 4 \/ off + length > Len(bytes)
             THEN [ok |-> FALSE, exact |-> FALSE, attrs |-> acc]
             ELSE DecodeFrom(bytes, alignto(off + length), Append(acc, one), e)

Decode(bytes, e) == DecodeFrom(bytes, 0, <<>>, e)

(* ------------------------------- claims -------------------------------- *)

IsErr(r) == r.kind = "Err"
IsPayload(r) == r.kind = "Payload"
Decodes(r) == IsPayload(r) /\ Flow_decode(r).ok
TuplesOf(rs) == [i \in 1..Len(rs) |-> <<rs[i].orig, rs[i].reply>>]
Returned(name) == op = name /\ pc = "idle" /\ ret.tag # "None"
SentAttrs == delete_attrs(args.proto, args.ip, args.src, endian)

\* C1: a dump whose responses hold no error returns Ok with the Flows of all
\* the entries that decode, every response processed; an entry that does not
\* decode is skipped and does not end the dump with the decode error.
C1_DumpSkipsUndecodableEntries ==
    (Returned("dump") /\ ret.err # "send"
        /\ \A i \in 1..Len(responses) : ~IsErr(responses[i]))
    => /\ pos = Len(responses)
       /\ ret = Ok(TuplesOf(SelectSeq(responses, Decodes)))

\* C2: when a response to a delete request is an error, delete returns that
\* error; delete returns Ok only if no response was an error.
C2_DeleteReturnsResponseError ==
    Returned("delete")
    => /\ (\E i \in 1..Len(responses) : IsErr(responses[i]))
            => ret.tag = "Err"
       /\ ret.tag = "Ok" => \A i \in 1..Len(responses) : ~IsErr(responses[i])

\* C3: a call of dump or delete sends exactly one request and has taken the
\* whole response sequence when it returns, with a value or with an error; no
\* response of an earlier request is unread when the next request is sent.
C3_OneRequestWhollyConsumed ==
    /\ (pc = "idle" /\ ret.tag # "None") => (sends = 1 /\ pos = Len(responses))
    /\ unreadAtSend = 0

\* C4: delete takes the top-level attribute type from the flag alone, the
\* address attribute type from the family and the flag, and the address
\* octets in network order as the payload: 4 bytes for IPv4, 16 for IPv6.
C4_DeleteSelectsTypesAndOctets ==
    op = "delete" =>
    LET a == request.attrs[1]
        ipa == SentAttrs.ip_attr
        bin == ipa.nla_payload
        v4 == args.ip.family = "V4"
    IN  /\ a.nla_type.nla_type
             = (IF args.src THEN "CtaTupleOrig" ELSE "CtaTupleReply")
        /\ ipa.nla_type.nla_type
             = (IF v4 THEN (IF args.src THEN "CtaIpv4Src" ELSE "CtaIpv4Dst")
                      ELSE (IF args.src THEN "CtaIpv6Src" ELSE "CtaIpv6Dst"))
        /\ Len(bin) = (IF v4 THEN 4 ELSE 16)
        /\ v4 => bin = args.ip.parts
        /\ ~v4 => \A k \in 1..8 :
                     256 * bin[2 * k - 1] + bin[2 * k] = args.ip.parts[k]
        /\ \A i \in 1..Len(bin) : bin[i] \in 0..255
        \* the address attribute is the one the request carries: the first
        \* attribute of the IP tuple, itself the first of the top-level payload
        /\ SubSeq(a.nla_payload, 5, 8 + Len(bin)) = to_bytes(ipa, endian)

C4_Witness ==
    /\ op = "delete" /\ pc = "idle" /\ ret.tag = "Ok"
    /\ args.ip = V6(<<0, 0, 0, 0, 0, 0, 0, 1>>) /\ ~args.src
    /\ SentAttrs.ip_attr.nla_payload
         = <<0, 0, 0, 0, 0, 0, 0, 0, 0, 0, 0, 0, 0, 0, 0, 1>>
    /\ request.attrs[1].nla_type.nla_type = "CtaTupleReply"

\* C5: the protocol-number attribute delete builds has a payload of exactly
\* the 4 bytes 00 00 00 p, whatever the byte order of the host.
C5_ProtoPayloadBigEndian ==
    op = "delete" =>
        SentAttrs.proto_attr.nla_payload = <<0, 0, 0, args.proto>>

\* C5, amended: the protocol-number attribute delete builds has a payload of
\* exactly 4 bytes, the protocol number as a u32 in the byte order of the
\* host: p 00 00 00 on a little-endian host, 00 00 00 p on a big-endian one;
\* these are the bytes the request carries at the end of its attribute.
C5_ProtoPayloadHostOrder ==
    op = "delete" =>
    LET bin == SentAttrs.proto_attr.nla_payload
        sent == request.attrs[1].nla_payload
    IN  /\ Len(bin) = 4
        /\ bin = (IF endian = "LE" THEN <<args.proto, 0, 0, 0>>
                                   ELSE <<0, 0, 0, args.proto>>)
        /\ SubSeq(sent, Len(sent) - 3, Len(sent)) = bin

C5_Witness ==
    /\ op = "delete" /\ pc = "idle" /\ ret.tag = "Ok"
    /\ endian = "LE" /\ args.proto = 6
    /\ SentAttrs.proto_attr.nla_payload = <<6, 0, 0, 0>>

\* C6: delete sends a single top-level attribute with the nested flag set,
\* whose payload is exactly two siblings in this order: the nested IP tuple
\* holding exactly the scalar address attribute, then the nested protocol
\* tuple holding exactly the scalar protocol-number attribute.
C6_DeleteAttributeShape ==
    op = "delete" =>
    LET a == request.attrs[1]
        d == SentAttrs
    IN  /\ Len(request.attrs) = 1
        /\ a.nla_type.nla_nested
        /\ a.nla_payload = to_bytes(d.ip_tuple, endian)
                           \o to_bytes(d.proto_tuple, endian)
        /\ a.nla_len = 4 + Len(a.nla_payload)
        /\ d.ip_tuple.nla_type.nla_type = "CtaTupleIp"
        /\ d.ip_tuple.nla_type.nla_nested
        /\ d.ip_tuple.nla_payload = to_bytes(d.ip_attr, endian)
        /\ ~d.ip_attr.nla_type.nla_nested
        /\ d.ip_attr.nla_payload = octets(args.ip)
        /\ d.proto_tuple.nla_type.nla_type = "CtaTupleProto"
        /\ d.proto_tuple.nla_type.nla_nested
        /\ d.proto_tuple.nla_payload = to_bytes(d.proto_attr, endian)
        /\ d.proto_attr.nla_type.nla_type = "CtaProtoNum"
        /\ ~d.proto_attr.nla_type.nla_nested
        /\ Len(d.proto_attr.nla_payload) = 4

C6_Witness ==
    /\ op = "delete" /\ pc = "delete"
    /\ args.ip.family = "V6" /\ args.src /\ args.proto = 17
    /\ Len(request.attrs[1].nla_payload) = 36

\* C8: encoding the attribute delete builds and decoding the bytes level by
\* level gives, in the same order, the same type codes, nested flags and
\* payload bytes at every level, and takes the buffer exactly.
C8_DeleteRoundTrip ==
    op = "delete" =>
    LET a == request.attrs[1]
        d == SentAttrs
        l0 == Decode(to_bytes(a, endian), endian)
        l1 == Decode(l0.attrs[1].payload, endian)
        l2ip == Decode(l1.attrs[1].payload, endian)
        l2proto == Decode(l1.attrs[2].payload, endian)
    IN  /\ l0.ok /\ l0.exact /\ l0.attrs = <<View(a)>>
        /\ l1.ok /\ l1.exact
        /\ l1.attrs = <<View(d.ip_tuple), View(d.proto_tuple)>>
        /\ l2ip.ok /\ l2ip.exact /\ l2ip.attrs = <<View(d.ip_attr)>>
        /\ l2proto.ok /\ l2proto.exact
        /\ l2proto.attrs = <<View(d.proto_attr)>>

C8_Witness ==
    /\ op = "delete" /\ pc = "idle"
    /\ args.ip = V4(10, 0, 0, 1) /\ args.src /\ args.proto = 6
    /\ Len(to_bytes(request.attrs[1], endian)) = 28
    /\ Decode(request.attrs[1].nla_payload, endian).attrs[1].type_code = 1
    /\ Decode(request.attrs[1].nla_payload, endian).attrs[2].type_code = 2

\* C9: the header of a delete request is the same whatever the arguments:
\* the flags are exactly ACK and MATCH and the command code is AF_INET, for
\* IPv4 and IPv6 targets, either direction and any protocol.
C9_DeleteHeaderConstant ==
    op = "delete" =>
        /\ request.kind = "CtDelete"
        /\ request.flags = {"ACK", "MATCH"}
        /\ request.cmd = AF_INET
        /\ request.version = NFNETLINK_V0

C9_Witness ==
    /\ op = "delete" /\ pc = "delete" /\ pos = 1
    /\ args.ip.family = "V6" /\ ~args.src /\ args.proto = 255
    /\ request.cmd = AF_INET

\* C10: when dump returns Ok, the list holds exactly one Flow for each
\* response with a payload, in the order received; responses without a
\* payload add nothing and do not end the iteration.
C10_DumpFlowsInOrder ==
    (Returned("dump") /\ ret.tag = "Ok") =>
        /\ pos = Len(responses)
        /\ ret.flows = TuplesOf(SelectSeq(responses, IsPayload))

C10_Witness ==
    /\ Returned("dump") /\ ret.tag = "Ok"
    /\ Len(responses) = 3
    /\ IsPayload(responses[1]) /\ ~IsPayload(responses[2])
    /\ IsPayload(responses[3])
    /\ ret.flows = <<<<1, 1>>, <<2, 2>>>>

\* The encoded form of an attribute with a payload of n bytes: the length
\* field reads 4 + n, the bytes are 4 + n rounded up to a multiple of 4, the
\* payload follows the header and the padding bytes are zero
WellEncoded(attr, bytes) ==
    LET n == Len(attr.nla_payload)
    IN  /\ attr.nla_len = 4 + n
        /\ Len(bytes) = ((4 + n + 3) \div 4) * 4
        /\ u16_from_ne_bytes(SubSeq(bytes, 1, 2), endian) = 4 + n
        /\ SubSeq(bytes, 5, 4 + n) = attr.nla_payload
        /\ \A i \in (4 + n + 1)..Len(bytes) : bytes[i] = 0

\* The offset of the i-th child in the payload of its parent
RECURSIVE ChildOffset(_, _)
ChildOffset(children, i) ==
    IF i = 1 THEN 0
    ELSE ChildOffset(children, i - 1)
         + ((4 + Len(children[i - 1].nla_payload) + 3) \div 4) * 4

\* C7: an attribute with a payload of n bytes, at any nesting level, has a
\* length field of 4 + n and an encoded form of 4 + n rounded up to a
\* multiple of 4 bytes with zero padding, the bytes of into_buffer included;
\* the payload of a nested attribute is the concatenation of the padded
\* encodings of its children.
C7_EncodedLengthAndPadding ==
    /\ kid.set => WellEncoded(kid.attr, to_bytes(kid.attr, endian))
    /\ (kid.set /\ buf # <<>>) => WellEncoded(kid.attr, buf)
    /\ cur.set =>
        /\ WellEncoded(cur.attr, to_bytes(cur.attr, endian))
        /\ cur.attr.nla_type.nla_nested
        /\ Len(cur.attr.nla_payload) = ChildOffset(kids, Len(kids) + 1)
        /\ \A i \in 1..Len(kids) :
              WellEncoded(kids[i],
                          SubSeq(cur.attr.nla_payload,
                                 ChildOffset(kids, i) + 1,
                                 ChildOffset(kids, i + 1)))

C7_Witness ==
    /\ cur.set /\ cur.depth = 2 /\ Len(kids) = 2
    /\ kids[1].nla_type.nla_nested /\ Len(kids[1].nla_payload) = 20
    /\ Len(kids[2].nla_payload) = 5
    /\ Len(cur.attr.nla_payload) = 36
    /\ kid.set /\ Len(buf) = 12

====
